---------------------------- MODULE Spec2Model ----------------------------
(***************************************************************************)
(* State-machine model of the retrieval core of the banking assistant:     *)
(*   - build_faiss_index.build_index  (index + chunk store persistence)    *)
(*   - utils.rag_utils                (module-level load, retrieval)       *)
(*   - utils.common_utils.Cache       (response cache)                     *)
(* Texts are sequences of one-character strings; embeddings are sequences  *)
(* of integers; Python's 0-based row ids are kept as they are.             *)
(***************************************************************************)
EXTENDS Integers, Sequences, FiniteSets, TLC

(* ------------------------------ bounds -------------------------------- *)
MaxChunks == 2
MaxTopK == 3
MaxTime == 2
MaxCacheSize == 2
MaxTextLen == 6
MaxChunkSize == 5
MaxEmbedChunks == 11
MaxNewData == 2

(* --------------------------- input universes --------------------------- *)
LF == "\n"
QUOTE == "\""
BSLASH == "\\"

\* chunk texts offered to build_index: a plain one and one made of the
\* characters json.dumps has to escape
ChunkTexts == { <<"a">>, <<BSLASH, "n", LF, QUOTE>> }

\* embeddings: two of dimension 1, one of dimension 2
Vectors == { <<0>>, <<2>>, <<1, 1>> }

\* query embeddings returned by the embedding service
QueryVectors == { <<0>>, <<1>>, <<1, 1>> }

SeqsUpTo(S, n) == UNION { [1..m -> S] : m \in 0..n }

Min(a, b) == IF a < b THEN a ELSE b

(* ------------------------ json.dumps / json.loads ---------------------- *)
PREFIX == "{\"text\": \""
SUFFIX == "\"}"

\* a faulty EscapeChar: the line feed is written as it is
EscapeCharRawLF(c) ==
    IF c = QUOTE THEN <<BSLASH, QUOTE>>
    ELSE IF c = BSLASH THEN <<BSLASH, BSLASH>>
    ELSE <<c>>

EscapeChar(c) ==
    IF c = LF THEN <<BSLASH, "n">>
    ELSE IF c = QUOTE THEN <<BSLASH, QUOTE>>
    ELSE IF c = BSLASH THEN <<BSLASH, BSLASH>>
    ELSE <<c>>

RECURSIVE EscapeText(_)
EscapeText(s) ==
    IF s = <<>> THEN <<>> ELSE EscapeChar(Head(s)) \o EscapeText(Tail(s))

\* json.dumps({"text": chunk})
json_dumps(chunk) == <<PREFIX>> \o EscapeText(chunk) \o <<SUFFIX>>

JsonError == [ok |-> FALSE, text |-> <<>>]
JsonOk(t) == [ok |-> TRUE, text |-> t]

\* decoding of the body of a JSON string; JsonError when it is malformed
RECURSIVE UnescapeText(_)
UnescapeText(s) ==
    IF s = <<>> THEN JsonOk(<<>>)
    ELSE IF Head(s) = BSLASH THEN
        IF Len(s) < 2 \/ s[2] \notin {"n", QUOTE, BSLASH} THEN JsonError
        ELSE LET d == IF s[2] = "n" THEN LF ELSE s[2]
                 rest == UnescapeText(SubSeq(s, 3, Len(s)))
             IN  IF rest.ok THEN JsonOk(<<d>> \o rest.text) ELSE JsonError
    ELSE IF Head(s) \in {QUOTE, LF, PREFIX, SUFFIX} THEN JsonError
    ELSE LET rest == UnescapeText(Tail(s))
         IN  IF rest.ok THEN JsonOk(<<Head(s)>> \o rest.text) ELSE JsonError

\* json.loads(line)["text"]
json_loads_text(line) ==
    IF Len(line) < 2 \/ line[1] # PREFIX \/ line[Len(line)] # SUFFIX
    THEN JsonError
    ELSE UnescapeText(SubSeq(line, 2, Len(line) - 1))

\* iteration over the lines of a text file: split after every LF; a tail
\* without LF is a last line of its own
RECURSIVE SplitLines(_, _)
SplitLines(file, cur) ==
    IF file = <<>> THEN (IF cur = <<>> THEN <<>> ELSE <<cur>>)
    ELSE IF Head(file) = LF THEN <<cur>> \o SplitLines(Tail(file), <<>>)
    ELSE SplitLines(Tail(file), Append(cur, Head(file)))


(* ------------------------------- state --------------------------------- *)
VARIABLES
    \* storage location faiss_index/
    faiss_index_file,   \* faiss.index: NoFile, Corrupt or the serialized index
    chunks_file,        \* chunks.jsonl: NoFile or its characters
    \* one run of build_index
    buildPc,            \* "idle", "write_index", "open_chunks", "write_chunks"
    bChunks, bEmb,      \* arguments of the running build_index
    bWritten,           \* chunks already written by the loop of line 104
    lastCall,           \* history: the last call of build_index and its outcome
    built,              \* history: arguments of the completed build the storage holds
    \* serving process (module utils.rag_utils)
    proc,               \* "not_started" or "running"
    index, chunks,      \* module-level globals of rag_utils
    loadedFrom,         \* history: what the storage held when the module loaded
    ret,                \* history: last call of retrieve_similar_documents
    \* utils.common_utils.Cache
    max_size, cache, access_times,
    now,                \* wall clock read by datetime.now()
    recency,            \* history: keys from least to most recently used
    lastOp,             \* history: last cache operation
    \* app.py: one run of the chat-input handler
    chat,
    \* threads of the hosting process inside Cache.get / Cache.set
    thr,
    \* one call of TextProcessor.chunk_text
    ct,
    \* one run of the script build_faiss_index.py
    em,
    \* data/banking_documents.jsonl and the last merge_with_existing_data
    sc

storeVars == <<faiss_index_file, chunks_file>>
buildVars == <<buildPc, bChunks, bEmb, bWritten, lastCall, built>>
procVars == <<proc, index, chunks, loadedFrom, ret>>
cacheVars == <<max_size, cache, access_times, now, recency, lastOp>>
chatVars == <<chat>>
\* what the builder, the retriever and the sequential cache leave alone
threadVars == <<thr>>
chunkerVars == <<ct>>
scriptVars == <<em>>
scraperVars == <<sc>>
sideVars == <<chatVars, threadVars, chunkerVars, scriptVars, scraperVars>>
\* what each of them leaves alone
notThread == <<storeVars, buildVars, procVars, chatVars, chunkerVars, scriptVars,
               scraperVars>>
notChunker == <<storeVars, buildVars, procVars, cacheVars, chatVars, threadVars,
                scriptVars, scraperVars>>
notScript == <<chatVars, threadVars, chunkerVars, scraperVars>>
notScraper == <<storeVars, buildVars, procVars, cacheVars, chatVars, threadVars,
                chunkerVars, scriptVars>>
vars == <<storeVars, buildVars, procVars, cacheVars, sideVars>>

\* Python's None for the global index
None == [loaded |-> FALSE, d |-> 0, rows |-> <<>>]
\* a file of the storage location: missing, truncated by a failed write, or ok
NoFile == [state |-> "missing", d |-> 0, rows |-> <<>>, data |-> <<>>]
Corrupt == [state |-> "corrupt", d |-> 0, rows |-> <<>>, data |-> <<>>]
\* faiss.write_index / faiss.read_index: the library's own serialization
write_index(ix) == [state |-> "ok", d |-> ix.d, rows |-> ix.rows, data |-> <<>>]
read_index(f) == [loaded |-> TRUE, d |-> f.d, rows |-> f.rows]
TextFile(s) == [state |-> "ok", d |-> 0, rows |-> <<>>, data |-> s]
NoBuild == [valid |-> FALSE, chunks |-> <<>>, embeddings |-> <<>>]
NoCall == [badArgs |-> FALSE, outcome |-> "none"]
NoRet == [kind |-> "none", result |-> <<>>, embedCalled |-> FALSE,
          query |-> <<>>, top_k |-> 0, I |-> <<>>, configOk |-> TRUE,
          requested |-> FALSE]

(* ----------------------------- build_index ----------------------------- *)
\* history only: the arguments the contract of build_index rejects
BadArgs(c, e) == Len(c) = 0 \/ Len(e) = 0 \/ Len(c) # Len(e)

\* a faulty ValidInput: the length comparison of line 85 is missing
ValidInputNoLenCheck(c, e) == c # <<>> /\ e # <<>>

\* lines 82-86: the argument checks
ValidInput(c, e) == c # <<>> /\ e # <<>> /\ Len(c) = Len(e)

\* line 91: np.vstack accepts rows of one length only
SameDim(e) == \A i \in 1..Len(e) : Len(e[i]) = Len(e[1])

\* lines 89-91: IndexFlatL2(dim) holding the embeddings as rows, in order
IndexFlatL2(e) == [loaded |-> TRUE, d |-> Len(e[1]), rows |-> e]

\* line 105: one line of chunks.jsonl
ChunkLine(chunk) == json_dumps(chunk) \o <<LF>>

\* lines 80-91: the checks and the in-memory index
BuildEnter(c, e) ==
    /\ buildPc = "idle"
    /\ IF ~ValidInput(c, e) \/ ~SameDim(e)
       THEN /\ lastCall' = [badArgs |-> BadArgs(c, e), outcome |-> "ValueError"]
            /\ UNCHANGED <<buildPc, bChunks, bEmb>>
       ELSE /\ buildPc' = "write_index"
            /\ bChunks' = c /\ bEmb' = e
            /\ lastCall' = [badArgs |-> BadArgs(c, e), outcome |-> "running"]
    /\ UNCHANGED <<storeVars, bWritten, built, procVars, cacheVars>>

\* build_index called by the script, run offline before the app is started
BuildCall(c, e) == proc = "not_started" /\ BuildEnter(c, e)

\* app.py lines 41-46: the running app starts the script in a subprocess
RebuildCall(c, e) == proc = "running" /\ BuildEnter(c, e)

\* lines 94-98: faiss.write_index replaces faiss.index
BuildWriteIndex ==
    /\ buildPc = "write_index"
    /\ faiss_index_file' = write_index(IndexFlatL2(bEmb))
    /\ buildPc' = "open_chunks"
    /\ built' = NoBuild
    /\ UNCHANGED <<chunks_file, bChunks, bEmb, bWritten, lastCall>>
    /\ UNCHANGED <<procVars, cacheVars>>

\* line 98 failing part-way (disk full, process killed): a truncated index file
BuildWriteIndexFail ==
    /\ buildPc = "write_index"
    /\ faiss_index_file' = Corrupt
    /\ buildPc' = "idle"
    /\ built' = NoBuild
    /\ lastCall' = [lastCall EXCEPT !.outcome = "failed"]
    /\ bChunks' = <<>> /\ bEmb' = <<>>
    /\ UNCHANGED <<chunks_file, bWritten, procVars, cacheVars>>

\* a faulty OpenForWriting: mode "a", the lines of an earlier build stay
OpenForAppending(f) == IF f.state = "ok" THEN f ELSE TextFile(<<>>)

\* open(chunks_path, "w"): the file is created or truncated
OpenForWriting(f) == TextFile(<<>>)

\* line 103
BuildOpenChunks ==
    /\ buildPc = "open_chunks"
    /\ chunks_file' = OpenForWriting(chunks_file)
    /\ buildPc' = "write_chunks"
    /\ UNCHANGED <<faiss_index_file, bChunks, bEmb, bWritten, lastCall, built>>
    /\ UNCHANGED <<procVars, cacheVars>>

\* lines 104-105: one iteration of the loop
BuildWriteChunk ==
    /\ buildPc = "write_chunks" /\ bWritten < Len(bChunks)
    /\ chunks_file' = TextFile(chunks_file.data \o ChunkLine(bChunks[bWritten + 1]))
    /\ bWritten' = bWritten + 1
    /\ UNCHANGED <<faiss_index_file, buildPc, bChunks, bEmb, lastCall, built>>
    /\ UNCHANGED <<procVars, cacheVars>>

\* lines 106-108: the file is closed, build_index returns
BuildFinish ==
    /\ buildPc = "write_chunks" /\ bWritten = Len(bChunks)
    /\ buildPc' = "idle"
    /\ built' = [valid |-> TRUE, chunks |-> bChunks, embeddings |-> bEmb]
    /\ lastCall' = [lastCall EXCEPT !.outcome = "ok"]
    /\ bChunks' = <<>> /\ bEmb' = <<>> /\ bWritten' = 0
    /\ UNCHANGED <<storeVars, procVars, cacheVars>>

\* build_index stops between two writes (an OSError, or the 120 s timeout of
\* app.py:46 killing the build): the lines written so far stay
BuildFail ==
    /\ buildPc \in {"open_chunks", "write_chunks"}
    /\ buildPc' = "idle"
    /\ lastCall' = [lastCall EXCEPT !.outcome = "failed"]
    /\ bChunks' = <<>> /\ bEmb' = <<>> /\ bWritten' = 0
    /\ UNCHANGED <<storeVars, built, procVars, cacheVars>>

(* ------------------- rag_utils: load at import time -------------------- *)
LoadFailed == [ok |-> FALSE, index |-> None, chunks |-> <<>>]

\* lines 42-62: load_index_and_chunks; ok = FALSE when it raises
load_index_and_chunks(fi, fc) ==
    IF fi.state = "missing" \/ fc.state = "missing" THEN LoadFailed
    ELSE IF fi.state = "corrupt" THEN LoadFailed
    ELSE LET lines == SplitLines(fc.data, <<>>)
             parsed == [i \in 1..Len(lines) |-> json_loads_text(lines[i])]
         IN  IF \E i \in 1..Len(lines) : ~parsed[i].ok THEN LoadFailed
             ELSE [ok |-> TRUE, index |-> read_index(fi),
                   chunks |-> [i \in 1..Len(lines) |-> parsed[i].text]]

NotLoadedYet == [built |-> NoBuild, missing |-> FALSE]

\* lines 64-69: the serving process imports rag_utils
ModuleLoad ==
    /\ proc = "not_started" /\ buildPc = "idle"
    /\ proc' = "running"
    /\ LET l == load_index_and_chunks(faiss_index_file, chunks_file)
       IN  /\ index' = (IF l.ok THEN l.index ELSE None)
           /\ chunks' = (IF l.ok THEN l.chunks ELSE <<>>)
    /\ loadedFrom' = [built |-> built,
                      missing |-> (faiss_index_file.state = "missing"
                                     \/ chunks_file.state = "missing")]
    /\ UNCHANGED <<ret, storeVars, buildVars, cacheVars>>

\* the serving process ends; the next one imports the module again
ProcExit ==
    /\ proc = "running"
    /\ proc' = "not_started"
    /\ index' = None /\ chunks' = <<>>
    /\ loadedFrom' = NotLoadedYet /\ ret' = NoRet
    /\ UNCHANGED <<storeVars, buildVars, cacheVars>>

(* ------------------- rag_utils: retrieve_similar_documents ------------- *)
NOT_LOADED_MSG == <<"Error: FAISS index not loaded. Please run build_faiss_index.py first.">>
NO_RELEVANT_MSG == <<"No relevant documents found.">>
ERROR_MSG == <<"Error retrieving documents: ...">>

\* a faulty get_azure_client: validate_config is not consulted
get_azure_client_unchecked(configOk) == TRUE

\* lines 21-39 (and build_faiss_index.py 20-33): a client, unless
\* validate_config raises
get_azure_client(configOk) == configOk

\* what the embedding service does with the request: a vector, or a failure
ServiceReplies == { [ok |-> TRUE, vec |-> v] : v \in QueryVectors }
                    \cup { [ok |-> FALSE, vec |-> <<>>] }

\* lines 72-94: without a client embed_query raises before the request
embed_query(configOk, reply) ==
    IF ~get_azure_client(configOk)
    THEN [ok |-> FALSE, vec |-> <<>>, requested |-> FALSE, configOk |-> configOk]
    ELSE [ok |-> reply.ok, vec |-> reply.vec, requested |-> TRUE,
          configOk |-> configOk]

\* outcome of embed_query: a vector, or an exception
EmbedOutcomes ==
    { embed_query(configOk, reply) : configOk \in BOOLEAN, reply \in ServiceReplies }

RECURSIVE Dist2(_, _)
\* squared L2 distance of two vectors of one dimension
Dist2(u, v) ==
    IF u = <<>> THEN 0
    ELSE (Head(u) - Head(v)) * (Head(u) - Head(v)) + Dist2(Tail(u), Tail(v))

RowDist(ix, q, id) == Dist2(q, ix.rows[id + 1])

\* index.search(q, k) of IndexFlatL2: the ids of the min(k, ntotal) nearest
\* rows by ascending distance, padded with -1 up to k; the order of rows at
\* one distance is the library's choice
IndexSearch(ix, q, k) ==
    LET n == Len(ix.rows)
        m == Min(k, n)
        ids == 0..(n - 1)
        best == { p \in [1..m -> ids] :
                    /\ \A a, b \in 1..m :
                         a < b => /\ p[a] # p[b]
                                  /\ RowDist(ix, q, p[a]) <= RowDist(ix, q, p[b])
                    /\ \A r \in ids :
                         (\A a \in 1..m : p[a] # r)
                            => \A a \in 1..m :
                                 RowDist(ix, q, r) >= RowDist(ix, q, p[a]) }
    IN  { [j \in 1..k |-> IF j <= m THEN p[j] ELSE -1] : p \in best }

\* a faulty NotLoaded: the guard of line 108 never fires
NotLoadedNever(ix) == FALSE

\* line 108
NotLoaded(ix) == ~ix.loaded

\* line 114: the filter of the comprehension
KeepIdx(idx, chs) == idx < Len(chs)

\* Python's chs[idx]: a negative idx counts from the end
PyIndexError(chs, idx) ==
    IF idx >= 0 THEN idx >= Len(chs) ELSE Len(chs) + idx < 0
PyIndex(chs, idx) ==
    IF idx >= 0 THEN chs[idx + 1] ELSE chs[Len(chs) + idx + 1]

\* a faulty ResultOrPlaceholder: the list is returned also when it is empty
ResultAsIs(results) == results

\* line 115
ResultOrPlaceholder(results) ==
    IF results # <<>> THEN results ELSE <<NO_RELEVANT_MSG>>

RetRecord(kind, result, called, q, k, I) ==
    [kind |-> kind, result |-> result, embedCalled |-> called,
     query |-> q, top_k |-> k, I |-> I, configOk |-> TRUE, requested |-> FALSE]

\* history: the environment of the call, and whether embed_query sent a request
InEnvironment(r, qe) ==
    [r EXCEPT !.configOk = qe.configOk,
              !.requested = r.embedCalled /\ qe.requested]

\* lines 114-115 for the ids I returned by the search
FromSearch(chs, q, k, I) ==
    LET kept == SelectSeq(I, LAMBDA idx : KeepIdx(idx, chs))
    IN  IF \E j \in 1..Len(kept) : PyIndexError(chs, kept[j])
        THEN RetRecord("error", <<ERROR_MSG>>, TRUE, q, k, I)
        ELSE LET results == [j \in 1..Len(kept) |-> PyIndex(chs, kept[j])]
             IN  RetRecord(IF results # <<>> THEN "ok" ELSE "none_found",
                           ResultOrPlaceholder(results), TRUE, q, k, I)

\* lines 108-118: every value retrieve_similar_documents can return
RetrieveOutcomes(ix, chs, qe, k) ==
    IF NotLoaded(ix)
    THEN { RetRecord("not_loaded", <<NOT_LOADED_MSG>>, FALSE, <<>>, k, <<>>) }
    ELSE IF ~qe.ok
    THEN { RetRecord("error", <<ERROR_MSG>>, TRUE, <<>>, k, <<>>) }
    ELSE IF ~ix.loaded \/ Len(qe.vec) # ix.d
    THEN \* index.search raises: no index object, or a query of another dimension
         { RetRecord("error", <<ERROR_MSG>>, TRUE, qe.vec, k, <<>>) }
    ELSE IF k <= 0
    THEN \* faiss either rejects k <= 0 or returns no ids
         { RetRecord("error", <<ERROR_MSG>>, TRUE, qe.vec, k, <<>>),
           FromSearch(chs, qe.vec, k, <<>>) }
    ELSE { FromSearch(chs, qe.vec, k, I) : I \in IndexSearch(ix, qe.vec, k) }

Retrieve(qe, k) ==
    /\ proc = "running"
    /\ ret' \in { InEnvironment(r, qe) : r \in RetrieveOutcomes(index, chunks, qe, k) }
    /\ UNCHANGED <<proc, index, chunks, loadedFrom>>
    /\ UNCHANGED <<storeVars, buildVars, cacheVars>>

(* ----------------------- common_utils.Cache --------------------------- *)
Keys == {"k1", "k2", "k3"}
Values == {"v1", "v2"}
\* no entry in the dict self.cache; also the None returned by get
Absent == "absent"
\* max_size of the module-level instance cache = Cache()
DEFAULT_MAX_SIZE == 1000

CacheKeys(c) == { k \in Keys : c[k] # Absent }

\* datetime.now(): the wall clock, read with microsecond resolution, does not
\* always advance between two reads
ClockReads(t) == t .. Min(t + 1, MaxTime)

HasTime(at, k) == \E i \in 1..Len(at) : at[i].key = k

\* self.access_times[key] = t on a dict that keeps insertion order
SetTime(at, k, t) ==
    IF HasTime(at, k)
    THEN [i \in 1..Len(at) |-> IF at[i].key = k THEN [key |-> k, time |-> t]
                                ELSE at[i]]
    ELSE Append(at, [key |-> k, time |-> t])

\* a faulty DelTime: the access time of the evicted key is kept
DelTimeKept(at, k) == at

\* del self.access_times[key]
DelTime(at, k) == SelectSeq(at, LAMBDA e : e.key # k)

\* line 264: min(...) returns the first key, in dict order, of minimal time
OldestKey(at) ==
    LET i == CHOOSE i \in 1..Len(at) :
                 /\ \A j \in 1..Len(at) : at[i].time <= at[j].time
                 /\ \A j \in 1..(i - 1) : at[j].time > at[i].time
    IN  at[i].key

\* a faulty Full: > for >=
FullStrict(c, ms) == Cardinality(CacheKeys(c)) > ms

\* line 262
Full(c, ms) == Cardinality(CacheKeys(c)) >= ms

Touch(r, k) == Append(SelectSeq(r, LAMBDA x : x # k), k)

NoOp == [op |-> "none", key |-> "", value |-> Absent, result |-> Absent,
         evicted |-> ""]

\* lines 239-252
CacheGet(key) ==
    /\ IF cache[key] # Absent
       THEN /\ \E t \in ClockReads(now) :
                  /\ now' = t
                  /\ access_times' = SetTime(access_times, key, t)
            /\ recency' = Touch(recency, key)
       ELSE UNCHANGED <<access_times, now, recency>>
    /\ lastOp' = [op |-> "get", key |-> key, value |-> Absent,
                  result |-> cache[key], evicted |-> ""]
    /\ UNCHANGED <<max_size, cache>>
    /\ UNCHANGED <<storeVars, buildVars, procVars>>

\* lines 254-269
CacheSet(key, value) ==
    /\ ~Full(cache, max_size) \/ access_times # <<>>
    /\ LET evict == Full(cache, max_size)
           oldest_key == OldestKey(access_times)
           c1 == IF evict THEN [cache EXCEPT ![oldest_key] = Absent] ELSE cache
           a1 == IF evict THEN DelTime(access_times, oldest_key)
                 ELSE access_times
           r1 == IF evict THEN SelectSeq(recency, LAMBDA x : x # oldest_key)
                 ELSE recency
       IN  /\ cache' = [c1 EXCEPT ![key] = value]
           /\ \E t \in ClockReads(now) :
                 /\ now' = t
                 /\ access_times' = SetTime(a1, key, t)
           /\ recency' = Touch(r1, key)
    /\ lastOp' = [op |-> "set", key |-> key, value |-> value, result |-> Absent,
                  evicted |-> IF Full(cache, max_size)
                              THEN OldestKey(access_times) ELSE ""]
    /\ UNCHANGED max_size
    /\ UNCHANGED <<storeVars, buildVars, procVars>>

\* lines 271-274
CacheClear ==
    /\ cache' = [k \in Keys |-> Absent]
    /\ access_times' = <<>>
    /\ recency' = <<>>
    /\ lastOp' = [op |-> "clear", key |-> "", value |-> Absent, result |-> Absent,
                  evicted |-> ""]
    /\ UNCHANGED <<max_size, now>>
    /\ UNCHANGED <<storeVars, buildVars, procVars>>

(* ------------- build_faiss_index.py: embed_chunks and the script ------- *)
\* line 63
batch_size == 10

\* the vector the embedding deployment returns for a text
EmbedOf(text) == IF text = <<"a">> THEN <<0>> ELSE <<2>>

\* a faulty Batch: one chunk short
BatchShort(chs, i) == SubSeq(chs, i + 1, Min(i + batch_size - 1, Len(chs)))

\* line 68: chunks[i:i + batch_size]
Batch(chs, i) == SubSeq(chs, i + 1, Min(i + batch_size, Len(chs)))

NoScript == [pc |-> "none", chunks |-> <<>>, configOk |-> TRUE, i |-> 0,
             embeddings |-> <<>>, requests |-> <<>>, returned |-> <<>>,
             error |-> "none", prior |-> NoBuild]

\* python build_faiss_index.py, after load_documents returned chunks; prior
\* is history, the build whose files the storage holds at that time
Script(chs, configOk, prior) ==
    [NoScript EXCEPT !.pc = "main", !.chunks = chs, !.configOk = configOk,
                     !.prior = prior]

\* lines 113-114 and 55-63: embed_chunks is called unless chunks is empty;
\* it raises when no client is available
EmbedEnter ==
    /\ em.pc = "main"
    /\ em' = IF em.chunks = <<>> THEN [em EXCEPT !.pc = "done"]
             ELSE IF ~get_azure_client(em.configOk)
             THEN [em EXCEPT !.pc = "raised", !.error = "config"]
             ELSE [em EXCEPT !.pc = "embed"]
    /\ UNCHANGED <<storeVars, buildVars, procVars, cacheVars>>

\* a faulty BatchFailed: the failed batch is skipped
BatchSkipped(e) ==
    [e EXCEPT !.i = @ + batch_size,
              !.pc = IF e.i + batch_size >= Len(e.chunks) THEN "returned" ELSE "embed",
              !.returned = IF e.i + batch_size >= Len(e.chunks)
                           THEN e.embeddings ELSE @]

\* lines 74-76: the exception of the request is raised again
BatchFailed(e) == [e EXCEPT !.pc = "raised"]

\* lines 67-78: one iteration of the loop, the request answered or failing
EmbedBatch(ok) ==
    /\ em.pc = "embed"
    /\ LET batch == Batch(em.chunks, em.i)
           sent == [em EXCEPT !.requests = Append(@, batch),
                              !.error = IF ok THEN @ ELSE "service"]
           batch_embeddings == [j \in 1..Len(batch) |-> EmbedOf(batch[j])]
           embeddings == em.embeddings \o batch_embeddings
           last == em.i + batch_size >= Len(em.chunks)
       IN  em' = IF ~ok THEN BatchFailed(sent)
                 ELSE [sent EXCEPT !.embeddings = embeddings,
                                   !.i = @ + batch_size,
                                   !.pc = IF last THEN "returned" ELSE "embed",
                                   !.returned = IF last THEN embeddings ELSE @]
    /\ UNCHANGED <<storeVars, buildVars, procVars, cacheVars>>

\* line 115: build_index(chunks, embeddings)
MainBuild ==
    /\ em.pc = "returned"
    /\ BuildCall(em.chunks, em.returned)
    /\ em' = [em EXCEPT !.pc = "build"]

(* ------------------- TextProcessor.chunk_text -------------------------- *)
\* a letter, the sentence end and a whitespace character
Chars == {"a", ".", " "}
Texts == SeqsUpTo(Chars, MaxTextLen)

Max(a, b) == IF a > b THEN a ELSE b

\* a slice index of Python on a string of length n: negative indices count
\* from the end, and both ends are clipped to 0..n
Clip(i, n) == IF i < 0 THEN Max(i + n, 0) ELSE Min(i, n)

\* text.rfind('.', start, end): the highest 0-based index in the slice, or -1
rfind(text, start, end) ==
    LET found == { i \in Clip(start, Len(text)) .. (Clip(end, Len(text)) - 1) :
                     text[i + 1] = "." }
    IN  IF found = {} THEN -1 ELSE CHOOSE i \in found : \A j \in found : j <= i

\* text[start:end].strip() as the 0-based positions lo..hi-1 it keeps, lo = hi
\* for the empty string
Strip(text, start, end) ==
    LET a == Clip(start, Len(text))
        b == Clip(end, Len(text))
        kept == { i \in a..(b - 1) : text[i + 1] # " " }
    IN  IF kept = {} THEN [lo |-> a, hi |-> a]
        ELSE [lo |-> CHOOSE i \in kept : \A j \in kept : i <= j,
              hi |-> 1 + CHOOSE i \in kept : \A j \in kept : j <= i]

\* a faulty WindowEnd: the window takes in the character after the sentence end
WindowEndPastSentence(text, chunk_size, start) ==
    LET end == start + chunk_size
        sentence_end == rfind(text, start, end)
    IN  IF end < Len(text) /\ sentence_end > start + (chunk_size \div 2)
        THEN sentence_end + 2
        ELSE end

\* lines 151-158: the end of the window that starts at start
WindowEnd(text, chunk_size, start) ==
    LET end == start + chunk_size
        sentence_end == rfind(text, start, end)
    IN  IF end < Len(text) /\ sentence_end > start + (chunk_size \div 2)
        THEN sentence_end + 1
        ELSE end

\* a faulty NextStart: the window after this one begins one character late
NextStartSkip(end, overlap) == end + 1

\* line 164
NextStart(end, overlap) == end - overlap

\* iterations after which a run of the loop is followed no further
IterCap == MaxTextLen + 2

NoChunking == [pc |-> "none", text |-> <<>>, chunk_size |-> 0, overlap |-> 0,
               start |-> 0, chunks |-> <<>>, windows |-> <<>>, spans |-> <<>>,
               iter |-> 0]

\* the call chunk_text(text, chunk_size, overlap)
Called(text, chunk_size, overlap) ==
    [pc |-> "called", text |-> text, chunk_size |-> chunk_size,
     overlap |-> overlap, start |-> 0, chunks |-> <<>>, windows |-> <<>>,
     spans |-> <<>>, iter |-> 0]

\* lines 144-148: a text no longer than chunk_size is returned as it is
ChunkEnter ==
    /\ ct.pc = "called"
    /\ ct' = IF Len(ct.text) <= ct.chunk_size
             THEN [ct EXCEPT !.pc = "returned", !.chunks = <<ct.text>>,
                             !.windows = <<[start |-> 0, end |-> Len(ct.text),
                                            lo |-> 0, hi |-> Len(ct.text)]>>]
             ELSE [ct EXCEPT !.pc = "loop"]

\* lines 150-168: one iteration of the while loop
ChunkIterate ==
    /\ ct.pc = "loop"
    /\ ct.iter < IterCap
    /\ LET end == WindowEnd(ct.text, ct.chunk_size, ct.start)
           chunk == Strip(ct.text, ct.start, end)
           start == NextStart(end, ct.overlap)
       IN  ct' = [ct EXCEPT
                    !.chunks = IF chunk.lo < chunk.hi
                               THEN Append(@, SubSeq(ct.text, chunk.lo + 1, chunk.hi))
                               ELSE @,
                    !.windows = IF chunk.lo < chunk.hi
                                THEN Append(@, [start |-> ct.start, end |-> end,
                                                lo |-> chunk.lo, hi |-> chunk.hi])
                                ELSE @,
                    !.spans = Append(@, [start |-> ct.start, end |-> end]),
                    !.start = start,
                    !.iter = @ + 1,
                    !.pc = IF start >= Len(ct.text) THEN "returned" ELSE "loop"]

(* --------------- Cache.get / Cache.set, statement by statement --------- *)
\* script threads of two sessions; the module-level cache is shared
Threads == {"t1", "t2"}
\* keys and values of their calls
ThreadKeys == {"k1", "k2"}
ThreadValues == {"v1"}

Idle == [pc |-> "idle", key |-> "", value |-> Absent, oldest_key |-> "",
         error |-> "none"]

Goto(t, pc) == thr' = [thr EXCEPT ![t].pc = pc]

Raise(t, e) == thr' = [thr EXCEPT ![t].pc = "idle", ![t].error = e]

\* line 262: if len(self.cache) >= self.max_size
SetCheck(t, key, value) ==
    /\ thr[t].pc = "idle"
    /\ thr' = [thr EXCEPT ![t] = [pc |-> IF Full(cache, max_size)
                                         THEN "set_min" ELSE "set_store",
                                  key |-> key, value |-> value,
                                  oldest_key |-> "", error |-> "none"]]
    /\ UNCHANGED cacheVars

\* line 264: oldest_key = min(self.access_times.keys(), ...)
SetMin(t) ==
    /\ thr[t].pc = "set_min"
    /\ IF access_times = <<>>
       THEN Raise(t, "ValueError")
       ELSE thr' = [thr EXCEPT ![t].pc = "set_del_cache",
                               ![t].oldest_key = OldestKey(access_times)]
    /\ UNCHANGED cacheVars

\* line 265: del self.cache[oldest_key]
SetDelCache(t) ==
    /\ thr[t].pc = "set_del_cache"
    /\ IF cache[thr[t].oldest_key] = Absent
       THEN Raise(t, "KeyError") /\ UNCHANGED cache
       ELSE /\ cache' = [cache EXCEPT ![thr[t].oldest_key] = Absent]
            /\ Goto(t, "set_del_time")
    /\ UNCHANGED <<max_size, access_times, now, recency, lastOp>>

\* line 266: del self.access_times[oldest_key]
SetDelTime(t) ==
    /\ thr[t].pc = "set_del_time"
    /\ IF ~HasTime(access_times, thr[t].oldest_key)
       THEN Raise(t, "KeyError") /\ UNCHANGED access_times
       ELSE /\ access_times' = DelTime(access_times, thr[t].oldest_key)
            /\ Goto(t, "set_store")
    /\ UNCHANGED <<max_size, cache, now, recency, lastOp>>

\* line 268: self.cache[key] = value
SetStore(t) ==
    /\ thr[t].pc = "set_store"
    /\ cache' = [cache EXCEPT ![thr[t].key] = thr[t].value]
    /\ Goto(t, "set_time")
    /\ UNCHANGED <<max_size, access_times, now, recency, lastOp>>

\* line 269: self.access_times[key] = datetime.now()
SetStamp(t) ==
    /\ thr[t].pc = "set_time"
    /\ \E time \in ClockReads(now) :
          /\ now' = time
          /\ access_times' = SetTime(access_times, thr[t].key, time)
    /\ Goto(t, "idle")
    /\ UNCHANGED <<max_size, cache, recency, lastOp>>

\* line 249: if key in self.cache (else line 252: return None)
GetCheck(t, key) ==
    /\ thr[t].pc = "idle"
    /\ thr' = [thr EXCEPT ![t] = [pc |-> IF cache[key] # Absent
                                         THEN "get_time" ELSE "idle",
                                  key |-> key, value |-> Absent,
                                  oldest_key |-> "", error |-> "none"]]
    /\ UNCHANGED cacheVars

\* line 250: self.access_times[key] = datetime.now()
GetStamp(t) ==
    /\ thr[t].pc = "get_time"
    /\ \E time \in ClockReads(now) :
          /\ now' = time
          /\ access_times' = SetTime(access_times, thr[t].key, time)
    /\ Goto(t, "get_return")
    /\ UNCHANGED <<max_size, cache, recency, lastOp>>

\* line 251: return self.cache[key]
GetReturn(t) ==
    /\ thr[t].pc = "get_return"
    /\ IF cache[thr[t].key] = Absent
       THEN Raise(t, "KeyError")
       ELSE thr' = [thr EXCEPT ![t].pc = "idle", ![t].value = cache[thr[t].key]]
    /\ UNCHANGED cacheVars

(* ------------------------ app.py: chat handler ------------------------- *)
Queries == {"q1", "q2"}
Modes == {"Concise", "Detailed"}

\* line 105: f"query_{hash(query)}"; the queries of the model do not collide
cache_key(q) == IF q = "q1" THEN "k1" ELSE "k2"

LLM_CONFIG_ERROR == "Error: Azure OpenAI configuration is invalid"
LLM_CALL_ERROR == "Error from LLM"
EMPTY_ANSWER == ""

\* the completion the service writes for a prompt built under these settings
Completion(mode, web) ==
    IF mode = "Concise"
    THEN IF web THEN "concise answer, web" ELSE "concise answer"
    ELSE IF web THEN "detailed answer, web" ELSE "detailed answer"

\* what generate_llm can return: an error string, or the stripped completion,
\* which is the empty string when the completion is blank
generate_llm(mode, web) ==
    { LLM_CONFIG_ERROR, LLM_CALL_ERROR, EMPTY_ANSWER, Completion(mode, web) }

\* line 107: "if cached_response:"; None and the empty string are false
Truthy(v) == v # Absent /\ v # EMPTY_ANSWER

\* the groups of terms the dispatch of lines 125-146 looks for in a query
TermGroups == {"repo", "news", "regulation", "targeted"}

\* a faulty WebLookup: the news rule is tried before the repo-rate rule
WebLookupNewsFirst(enable_web_search, terms) ==
    IF ~enable_web_search THEN <<>>
    ELSE IF "news" \in terms THEN <<"search_banking_news">>
    ELSE IF "repo" \in terms THEN <<"get_current_repo_rate">>
    ELSE IF "regulation" \in terms THEN <<"search_banking_regulations">>
    ELSE <<"live_web_search">>

\* lines 117-149: the lookups called for a query holding these term groups
WebLookup(enable_web_search, terms) ==
    IF ~enable_web_search THEN <<>>
    ELSE IF "repo" \in terms THEN <<"get_current_repo_rate">>
    ELSE IF "news" \in terms THEN <<"search_banking_news">>
    ELSE IF "regulation" \in terms THEN <<"search_banking_regulations">>
    ELSE IF "targeted" \in terms THEN <<"live_web_search">>
    ELSE <<"live_web_search">>

\* lines 118, 127-149: web_context, by its heading
WebContext(lookups) ==
    IF lookups = <<>> THEN ""
    ELSE IF lookups[1] = "get_current_repo_rate" THEN "Current Information"
    ELSE IF lookups[1] = "search_banking_news" THEN "Latest News"
    ELSE IF lookups[1] = "search_banking_regulations" THEN "Regulation Information"
    ELSE "Web Search Results"

\* terms is history: the term groups each query text holds
NoChat == [pc |-> "idle", query |-> "", mode |-> "", web |-> FALSE,
           answer |-> Absent, fromCache |-> FALSE, retrieved |-> FALSE,
           generated |-> FALSE, lookups |-> <<>>, web_context |-> "",
           terms |-> [q \in Queries |-> {}]]

\* lines 96-112: a query is submitted, the cache is asked, a hit is shown
ChatLookup(q, mode, web) ==
    /\ chat.pc = "idle"
    /\ CacheGet(cache_key(q))
    /\ LET cached_response == cache[cache_key(q)]
           hit == Truthy(cached_response)
       IN  chat' = [chat EXCEPT
                      !.pc = IF hit THEN "idle" ELSE "generate",
                      !.query = q, !.mode = mode, !.web = web,
                      !.answer = IF hit THEN cached_response ELSE Absent,
                      !.fromCache = hit,
                      !.retrieved = FALSE, !.generated = FALSE,
                      !.lookups = <<>>, !.web_context = ""]

\* lines 113-195: retrieval, web lookup, generation, the answer is cached and
\* shown
ChatGenerate(response) ==
    /\ chat.pc = "generate"
    /\ response \in generate_llm(chat.mode, chat.web)
    /\ CacheSet(cache_key(chat.query), response)
    /\ LET lookups == WebLookup(chat.web, chat.terms[chat.query])
       IN  chat' = [chat EXCEPT !.pc = "idle", !.answer = response,
                               !.retrieved = TRUE, !.generated = TRUE,
                               !.lookups = lookups,
                               !.web_context = WebContext(lookups)]

(* ------------- met_scraper.py: merge_with_existing_data ---------------- *)
\* item.get('title', ''): an item without a title has the title ""
Titles == {"", "t1"}
Contents == {"c1", "c2"}
Docs == [title : Titles, content : Contents]
MaxCorpus == 2 * MaxNewData

TitlesOf(data) == { data[i].title : i \in 1..Len(data) }

\* lines 217-218
unique_new_data(new_data, existing_data) ==
    LET existing_titles == TitlesOf(existing_data)
    IN  SelectSeq(new_data, LAMBDA item : item.title \notin existing_titles)

\* the corpus file: missing, or the documents of its lines
NoCorpus == [exists |-> FALSE, docs |-> <<>>]
Corpus(docs) == [exists |-> TRUE, docs |-> docs]

\* before, new_data, again and outcome are history: the documents read by
\* the last merge that succeeded and its argument, whether the successful
\* merge before it had the same argument
NoScrape == [file |-> NoCorpus, before |-> <<>>, new_data |-> <<>>,
             again |-> FALSE, outcome |-> "none"]

\* lines 207-226: the try block runs to its end
Merge(new_data) ==
    LET existing_data == IF sc.file.exists THEN sc.file.docs ELSE <<>>
        combined_data == existing_data \o unique_new_data(new_data, existing_data)
    IN  /\ Len(combined_data) <= MaxCorpus
        /\ sc' = [file |-> Corpus(combined_data), before |-> existing_data,
                  new_data |-> new_data,
                  again |-> (sc.outcome # "none" /\ sc.new_data = new_data),
                  outcome |-> "merged"]

\* lines 228-229: reading the corpus raised, the error is logged
MergeFails(new_data) ==
    /\ sc.file.exists
    /\ new_data \in SeqsUpTo(Docs, MaxNewData)
    /\ sc.outcome = "merged"
    /\ sc' = [sc EXCEPT !.outcome = "error"]

(* --------------------------- specifications ---------------------------- *)
InitStore ==
    /\ faiss_index_file = NoFile /\ chunks_file = NoFile
    /\ buildPc = "idle" /\ bChunks = <<>> /\ bEmb = <<>> /\ bWritten = 0
    /\ lastCall = NoCall /\ built = NoBuild
    /\ proc = "not_started" /\ index = None /\ chunks = <<>>
    /\ loadedFrom = NotLoadedYet /\ ret = NoRet

\* lines 228-237: Cache(max_size)
InitCache(ms) ==
    /\ max_size = ms
    /\ cache = [k \in Keys |-> Absent]
    /\ access_times = <<>>
    /\ now = 0 /\ recency = <<>> /\ lastOp = NoOp

InitSide ==
    /\ chat = NoChat /\ thr = [t \in Threads |-> Idle] /\ ct = NoChunking
    /\ em = NoScript /\ sc = NoScrape

\* offline builds, then serving processes over the storage they left
Init == InitStore /\ InitCache(DEFAULT_MAX_SIZE) /\ InitSide

Next ==
    \/ \E c \in SeqsUpTo(ChunkTexts, MaxChunks), e \in SeqsUpTo(Vectors, MaxChunks) :
          BuildCall(c, e) /\ UNCHANGED sideVars
    \/ BuildWriteIndex /\ UNCHANGED sideVars
    \/ BuildWriteIndexFail /\ UNCHANGED sideVars
    \/ BuildOpenChunks /\ UNCHANGED sideVars
    \/ BuildWriteChunk /\ UNCHANGED sideVars
    \/ BuildFinish /\ UNCHANGED sideVars
    \/ BuildFail /\ UNCHANGED sideVars
    \/ ModuleLoad /\ UNCHANGED sideVars
    \/ ProcExit /\ UNCHANGED sideVars
    \/ \E qe \in EmbedOutcomes, k \in 0..MaxTopK :
          Retrieve(qe, k) /\ UNCHANGED sideVars

Spec == Init /\ [][Next]_vars

\* a Cache of any capacity from 1 on, used sequentially
CacheInit == InitStore /\ InitSide /\ \E ms \in 1..MaxCacheSize : InitCache(ms)

CacheNext ==
    \/ \E key \in Keys : CacheGet(key) /\ UNCHANGED sideVars
    \/ \E key \in Keys, value \in Values :
          CacheSet(key, value) /\ UNCHANGED sideVars
    \/ CacheClear /\ UNCHANGED sideVars

CacheSpec == CacheInit /\ [][CacheNext]_vars

\* the Streamlit script run once per submitted query, one session, on the
\* module-level cache = Cache()
ChatNext ==
    \/ \E q \in Queries, mode \in Modes, web \in BOOLEAN :
          ChatLookup(q, mode, web) /\ UNCHANGED <<threadVars, chunkerVars, scriptVars, scraperVars>>
    \/ \E response \in generate_llm(chat.mode, chat.web) :
          ChatGenerate(response) /\ UNCHANGED <<threadVars, chunkerVars, scriptVars, scraperVars>>

\* the first query text holds any of the term groups, the second none
ChatInit ==
    /\ InitStore /\ InitCache(DEFAULT_MAX_SIZE)
    /\ thr = [t \in Threads |-> Idle] /\ ct = NoChunking /\ em = NoScript
    /\ sc = NoScrape
    /\ \E terms \in SUBSET TermGroups :
          chat = [NoChat EXCEPT !.terms = [q \in Queries |->
                                             IF q = "q1" THEN terms ELSE {}]]

ChatSpec == ChatInit /\ [][ChatNext]_vars

\* two script threads of one process on one Cache; a thread switch can fall
\* between any two statements of get and set
ThreadNext ==
    \/ \E t \in Threads, key \in ThreadKeys, value \in ThreadValues :
          SetCheck(t, key, value) /\ UNCHANGED notThread
    \/ \E t \in Threads : SetMin(t) /\ UNCHANGED notThread
    \/ \E t \in Threads :
          SetDelCache(t) /\ UNCHANGED notThread
    \/ \E t \in Threads :
          SetDelTime(t) /\ UNCHANGED notThread
    \/ \E t \in Threads : SetStore(t) /\ UNCHANGED notThread
    \/ \E t \in Threads : SetStamp(t) /\ UNCHANGED notThread
    \/ \E t \in Threads, key \in ThreadKeys :
          GetCheck(t, key) /\ UNCHANGED notThread
    \/ \E t \in Threads : GetStamp(t) /\ UNCHANGED notThread
    \/ \E t \in Threads : GetReturn(t) /\ UNCHANGED notThread

ThreadSpec == CacheInit /\ [][ThreadNext]_vars

RECURSIVE Concat(_)
Concat(ss) == IF ss = <<>> THEN <<>> ELSE Head(ss) \o Concat(Tail(ss))

\* the two files a completed build leaves
IndexFileOf(b) ==
    IF b.valid THEN write_index(IndexFlatL2(b.embeddings)) ELSE NoFile
ChunksFileOf(b) ==
    IF b.valid
    THEN TextFile(Concat([i \in 1..Len(b.chunks) |-> ChunkLine(b.chunks[i])]))
    ELSE NoFile

\* the storage before the script runs: empty, or left by an earlier build
\* of one or of two chunks
PriorBuilds ==
    { NoBuild,
      [valid |-> TRUE, chunks |-> << <<"a">> >>, embeddings |-> << <<0>> >>],
      [valid |-> TRUE, chunks |-> << <<"a">>, <<BSLASH, "n", LF, QUOTE>> >>,
       embeddings |-> << <<0>>, <<2>> >>] }

InitStoreAfter(b) ==
    /\ faiss_index_file = IndexFileOf(b) /\ chunks_file = ChunksFileOf(b)
    /\ buildPc = "idle" /\ bChunks = <<>> /\ bEmb = <<>> /\ bWritten = 0
    /\ lastCall = NoCall /\ built = b
    /\ proc = "not_started" /\ index = None /\ chunks = <<>>
    /\ loadedFrom = NotLoadedYet /\ ret = NoRet

\* one run of the script on the chunks load_documents returned, in an
\* environment where validate_config passes or not
ScriptInit(lists) ==
    /\ InitCache(DEFAULT_MAX_SIZE)
    /\ chat = NoChat /\ thr = [t \in Threads |-> Idle] /\ ct = NoChunking /\ sc = NoScrape
    /\ \E b \in PriorBuilds :
          /\ InitStoreAfter(b)
          /\ \E chs \in lists, configOk \in BOOLEAN : em = Script(chs, configOk, b)

ScriptNext ==
    \/ EmbedEnter /\ UNCHANGED notScript
    \/ \E ok \in BOOLEAN : EmbedBatch(ok) /\ UNCHANGED notScript
    \/ MainBuild /\ UNCHANGED notScript
    \/ BuildWriteIndex /\ UNCHANGED sideVars
    \/ BuildWriteIndexFail /\ UNCHANGED sideVars
    \/ BuildOpenChunks /\ UNCHANGED sideVars
    \/ BuildWriteChunk /\ UNCHANGED sideVars
    \/ BuildFinish /\ UNCHANGED sideVars
    \/ BuildFail /\ UNCHANGED sideVars

EmbedInit == ScriptInit(SeqsUpTo(ChunkTexts, MaxEmbedChunks))

EmbedSpec == EmbedInit /\ [][ScriptNext]_vars

\* the script on a few chunks, then a serving process over what it left
PipelineInit == ScriptInit(SeqsUpTo(ChunkTexts, MaxChunks))

PipelineNext ==
    \/ ScriptNext
    \/ ModuleLoad /\ UNCHANGED sideVars
    \/ \E qe \in EmbedOutcomes, k \in 0..MaxTopK :
          Retrieve(qe, k) /\ UNCHANGED sideVars

PipelineSpec == PipelineInit /\ [][PipelineNext]_vars

\* chunk_text called on any text, with any positive chunk_size and any
\* overlap from 0 to beyond chunk_size
ChunkInit ==
    /\ InitStore /\ InitCache(DEFAULT_MAX_SIZE)
    /\ chat = NoChat /\ thr = [t \in Threads |-> Idle] /\ em = NoScript /\ sc = NoScrape
    /\ \E text \in Texts, chunk_size \in 1..MaxChunkSize :
          \E overlap \in 0..(chunk_size + 1) : ct = Called(text, chunk_size, overlap)

ChunkNext ==
    \/ ChunkEnter /\ UNCHANGED notChunker
    \/ ChunkIterate /\ UNCHANGED notChunker

ChunkSpec == ChunkInit /\ [][ChunkNext]_vars

(* ------------------------------ claims --------------------------------- *)
BothFilesOk == faiss_index_file.state = "ok" /\ chunks_file.state = "ok"

Served == proc = "running" /\ ret.kind # "none"

\* the serving process loaded the artifacts of one completed build
LoadedBuild == proc = "running" /\ loadedFrom.built.valid

\* C1, as amended: after a successful build_index(chunks, embeddings), the
\* loaded chunk list equals the input chunks in order, has as many elements as
\* the loaded index has rows, and row i of the index is embeddings[i]; a query
\* with the embedding of chunk i gets as top-1 result the text of a chunk whose
\* embedding is that vector, chunk i itself when no other chunk has it
C1_BuildLoadRoundTrip ==
    LoadedBuild =>
        LET b == loadedFrom.built
        IN  /\ index.loaded
            /\ chunks = b.chunks
            /\ Len(chunks) = Len(index.rows)
            /\ \A i \in 1..Len(b.embeddings) : index.rows[i] = b.embeddings[i]
            /\ \A i \in 1..Len(b.embeddings) :
                 (ret.kind # "none" /\ ret.top_k >= 1 /\ ret.query = b.embeddings[i])
                    => /\ ret.kind = "ok"
                       /\ \E j \in 1..Len(b.embeddings) :
                            /\ b.embeddings[j] = b.embeddings[i]
                            /\ ret.result[1] = b.chunks[j]
                       /\ (\A j \in 1..Len(b.embeddings) :
                              b.embeddings[j] = b.embeddings[i] => j = i)
                            => ret.result[1] = b.chunks[i]

\* C1 witness: two different chunks were built, loaded, and the second one's
\* embedding was queried
C1_Witness ==
    /\ LoadedBuild
    /\ Len(chunks) = 2 /\ chunks[1] # chunks[2]
    /\ index.rows[1] # index.rows[2]
    /\ ret.kind = "ok" /\ ret.top_k >= 1
    /\ ret.query = index.rows[2] /\ ret.result[1] = chunks[2]

\* C1 as stated: a query with the embedding of chunk i always gets the text
\* of chunk i as its top-1 result
C1_OwnEmbeddingTop1 ==
    LoadedBuild =>
        LET b == loadedFrom.built
        IN  /\ chunks = b.chunks
            /\ Len(chunks) = Len(index.rows)
            /\ \A i \in 1..Len(b.embeddings) :
                 /\ index.rows[i] = b.embeddings[i]
                 /\ (ret.kind # "none" /\ ret.top_k >= 1
                       /\ ret.query = b.embeddings[i])
                      => ret.kind = "ok" /\ ret.result[1] = b.chunks[i]

\* the lines of chunks.jsonl, decoded, are the chunks c
HoldsChunks(fc, c) ==
    LET lines == SplitLines(fc.data, <<>>)
    IN  /\ Len(lines) = Len(c)
        /\ \A i \in 1..Len(c) : json_loads_text(lines[i]) = JsonOk(c[i])

\* C2: whenever no build is running and both artifacts exist, they are the
\* pair one build wrote: as many lines as rows, line i the chunk of row i
C2_PairOfOneBuild ==
    (buildPc = "idle" /\ BothFilesOk) =>
        /\ Len(SplitLines(chunks_file.data, <<>>)) = Len(faiss_index_file.rows)
        /\ built.valid
        /\ faiss_index_file.rows = built.embeddings
        /\ HoldsChunks(chunks_file, built.chunks)

\* C3: build_index with zero chunks, zero embeddings or lengths that differ
\* raises and leaves faiss.index and chunks.jsonl as they were
C3_BadArgsWriteNothing ==
    [][lastCall'.badArgs =>
          /\ lastCall'.outcome = "ValueError"
          /\ buildPc' = "idle"
          /\ faiss_index_file' = faiss_index_file
          /\ chunks_file' = chunks_file]_vars

\* C3 witness: a rejected call over a storage location that holds artifacts
C3_Witness ==
    /\ lastCall.badArgs /\ lastCall.outcome = "ValueError"
    /\ BothFilesOk /\ built.valid

ResultTexts == ChunkTexts \cup {NOT_LOADED_MSG, NO_RELEVANT_MSG, ERROR_MSG}

\* C4: retrieve_similar_documents returns a non-empty list of strings in every
\* state of the retriever and for every outcome of embedding and search; when
\* embedding or search fails the list is one error string
C4_AlwaysRenderable ==
    Served =>
        /\ ret.result # <<>>
        /\ \A j \in 1..Len(ret.result) : ret.result[j] \in ResultTexts
        /\ ret.kind = "error" => ret.result = <<ERROR_MSG>>
        /\ (ret.embedCalled /\ ret.query = <<>>) => ret.result = <<ERROR_MSG>>

\* C4 witness: an index with more rows than the chunk store has chunks and a
\* search whose ids are all dropped
C4_Witness ==
    /\ Served /\ index.loaded
    /\ Len(index.rows) > Len(chunks)
    /\ ret.kind = "none_found" /\ ret.I # <<>>

\* C5: when faiss.index or chunks.jsonl was missing at load time, every call
\* of retrieve_similar_documents in that process returns the one placeholder
\* string and makes no embedding call
C5_DegradedForGood ==
    (proc = "running" /\ loadedFrom.missing) =>
        /\ ~index.loaded /\ chunks = <<>>
        /\ ret.kind # "none" =>
             /\ ret.result = <<NOT_LOADED_MSG>>
             /\ ~ret.embedCalled

\* C5 witness: a query in a process that found faiss.index without chunks.jsonl
C5_Witness ==
    /\ proc = "running" /\ loadedFrom.missing
    /\ faiss_index_file.state = "ok" /\ chunks_file.state = "missing"
    /\ ret.kind = "not_loaded" /\ ret.top_k >= 1

InBounds(idx, chs) == 0 <= idx /\ idx < Len(chs)

\* C6: every returned row id outside the chunk store (idx < 0 or
\* idx >= len(chunks)) is dropped, so with fewer rows than top_k the result has
\* no more elements than the index has rows and no position twice
C6_OutOfBoundsDropped ==
    (Served /\ ret.kind = "ok") =>
        LET valid == SelectSeq(ret.I, LAMBDA idx : InBounds(idx, chunks))
        IN  /\ ret.result = [j \in 1..Len(valid) |-> chunks[valid[j] + 1]]
            /\ Len(index.rows) < ret.top_k => Len(ret.result) <= Len(index.rows)

\* C7: with the index loaded and the query embedded, the result has at most
\* top_k texts, in non-decreasing order of squared L2 distance between the
\* query and the row of each text's chunk
C7_AscendingDistance ==
    (Served /\ LoadedBuild /\ ret.kind = "ok") =>
        /\ Len(ret.result) <= ret.top_k
        /\ \E p \in [1..Len(ret.result) -> 0..(Len(index.rows) - 1)] :
             /\ \A j \in 1..Len(ret.result) : ret.result[j] = chunks[p[j] + 1]
             /\ \A a, b \in 1..Len(ret.result) :
                  a < b => RowDist(index, ret.query, p[a])
                             <= RowDist(index, ret.query, p[b])

Size == Cardinality(CacheKeys(cache))

\* C8: a set of a further distinct key on a Cache holding max_size keys evicts
\* exactly one entry, the one whose last get or set is oldest; a key read by
\* get after every other key's last access survives that insertion
C8_EvictsLeastRecentlyUsed ==
    [][(lastOp'.op = "set" /\ cache[lastOp'.key] = Absent /\ Size = max_size) =>
          /\ CacheKeys(cache') =
                (CacheKeys(cache) \ {Head(recency)}) \cup {lastOp'.key}
          /\ (lastOp.op = "get" /\ lastOp.result # Absent /\ max_size >= 2)
                => lastOp.key \in CacheKeys(cache')]_vars

\* C9: after any sequence of get, set and clear the number of entries is at
\* most max_size
C9_SizeBounded == Size <= max_size

\* C9 witness: a set on a full cache of capacity 2 evicted another key
C9_Witness ==
    /\ max_size = 2 /\ Size = max_size
    /\ lastOp.op = "set" /\ lastOp.evicted # "" /\ lastOp.evicted # lastOp.key
    /\ cache[lastOp.evicted] = Absent

\* C10: set removes an entry only when storing the key would bring the number
\* of entries above max_size; a set on a key already present updates its value
\* and leaves every other key present, also on a full cache
C10_SetOnPresentKeyKeepsAll ==
    [][lastOp'.op = "set" =>
          /\ (cache[lastOp'.key] # Absent \/ Size < max_size)
                => CacheKeys(cache) \subseteq CacheKeys(cache')
          /\ cache'[lastOp'.key] = lastOp'.value]_vars


\* C11: once an answer for a query is in the response cache, a later
\* submission of the same query is answered with the stored answer, without
\* retrieval or generation, whatever the stored answer is
C11_StoredAnswerServed ==
    [][ (chat.pc = "idle" /\ cache[cache_key(chat'.query)] # Absent)
        => /\ chat'.pc = "idle" /\ chat'.fromCache
           /\ chat'.answer = cache[cache_key(chat'.query)]
           /\ ~chat'.retrieved /\ ~chat'.generated ]_vars

ThreadsIdle == \A t \in Threads : thr[t].pc = "idle"

TimeKeys(at) == { at[i].key : i \in 1..Len(at) }

\* C12: under every interleaving of the get and set calls of concurrent
\* handlers the entry count never exceeds max_size, the value map and the
\* access-time map hold the same keys once the calls have returned, and no
\* call fails
C12_SerializedAccess ==
    /\ Size <= max_size
    /\ \A t \in Threads : thr[t].error = "none"
    /\ ThreadsIdle => CacheKeys(cache) = TimeKeys(access_times)

ValidOverlap == 0 <= ct.overlap /\ ct.overlap < ct.chunk_size

\* C13: with 0 <= overlap < chunk_size every iteration of the loop of
\* chunk_text moves the window start strictly forward, so the loop terminates
C13_StartStrictlyIncreases ==
    [][ (ValidOverlap /\ ct.pc = "loop") => ct'.start > ct.start ]_vars

\* C14: chunk_text called with overlap >= chunk_size fails with a
\* configuration error, for every text
C14_BadOverlapRejected ==
    (ct.pc \notin {"none", "called"} /\ ct.overlap >= ct.chunk_size)
        => ct.pc = "raised"

Covered(i) == \E w \in 1..Len(ct.windows) : ct.windows[w].lo <= i /\ i < ct.windows[w].hi

\* C15, as amended: with 0 <= overlap < chunk_size the chunks returned by
\* chunk_text together cover every position of the text that holds a
\* character other than whitespace
C15_NonSpaceCovered ==
    (ct.pc = "returned" /\ ValidOverlap)
        => \A i \in 0..(Len(ct.text) - 1) : ct.text[i + 1] # " " => Covered(i)

\* a text longer than chunk_size with a whitespace character, chunked in
\* several windows
C15_Witness ==
    /\ ct.pc = "returned" /\ ValidOverlap /\ Len(ct.windows) > 1
    /\ \E i \in 1..Len(ct.text) : ct.text[i] = " "
    /\ \E i \in 1..Len(ct.text) : ct.text[i] = "."

\* C15: with 0 <= overlap < chunk_size the chunks returned by chunk_text
\* together cover every character position of the text
C15_EveryPositionCovered ==
    (ct.pc = "returned" /\ ValidOverlap)
        => \A i \in 0..(Len(ct.text) - 1) : Covered(i)

Trimmed(chunk) == chunk # <<>> /\ chunk[1] # " " /\ chunk[Len(chunk)] # " "

\* C16: every element of the result of chunk_text is non-empty and has no
\* leading or trailing whitespace, for every text
C16_ChunksTrimmedNonEmpty ==
    ct.pc = "returned" => \A c \in 1..Len(ct.chunks) : Trimmed(ct.chunks[c])

IsSubstring(chunk, text) ==
    \E i \in 0..(Len(text) - Len(chunk)) : SubSeq(text, i + 1, i + Len(chunk)) = chunk

\* C17: with 0 <= overlap < chunk_size each chunk of chunk_text is a
\* contiguous substring of the text of length at most chunk_size, and no
\* window, snapped to a sentence end or not, is longer than chunk_size
C17_SubstringWithinChunkSize ==
    ValidOverlap
        => /\ \A c \in 1..Len(ct.chunks) :
                 /\ IsSubstring(ct.chunks[c], ct.text)
                 /\ Len(ct.chunks[c]) <= ct.chunk_size
           /\ \A w \in 1..Len(ct.windows) :
                 ct.windows[w].end - ct.windows[w].start <= ct.chunk_size

\* a returned chunk list with a window that was snapped to a sentence end
C17_Witness ==
    /\ ct.pc = "returned" /\ ValidOverlap
    /\ \E w \in 1..Len(ct.windows) :
          /\ ct.windows[w].end < ct.windows[w].start + ct.chunk_size
          /\ ct.windows[w].end < Len(ct.text)
          /\ ct.text[ct.windows[w].end] = "."

\* C18: when every request succeeds embed_chunks returns one vector per
\* chunk, vector i the embedding of chunk i, after ceil(len(chunks)/10)
\* requests of at most 10 consecutive chunks each that carry every chunk once,
\* in input order
C18_OneVectorPerChunkInBatches ==
    em.pc \in {"returned", "build"}
        => /\ Len(em.returned) = Len(em.chunks)
           /\ \A i \in 1..Len(em.chunks) : em.returned[i] = EmbedOf(em.chunks[i])
           /\ Len(em.requests) = (Len(em.chunks) + batch_size - 1) \div batch_size
           /\ \A r \in 1..Len(em.requests) : Len(em.requests[r]) <= batch_size
           /\ Concat(em.requests) = em.chunks

\* more chunks than one request carries, of both texts, all embedded
C18_Witness ==
    /\ em.pc = "returned" /\ Len(em.chunks) > batch_size
    /\ Len(em.requests) > 1
    /\ \E i, j \in 1..Len(em.chunks) : em.chunks[i] # em.chunks[j]

\* C19: when the request of a batch fails embed_chunks raises, returns no
\* embedding, sends no further request, and the script does not call
\* build_index, so that faiss.index and chunks.jsonl stay as they were
C19_FailedBatchFailsAll ==
    em.error = "service"
        => /\ em.pc = "raised" /\ em.returned = <<>>
           /\ Len(em.requests) = em.i \div batch_size + 1
           /\ lastCall = NoCall /\ buildPc = "idle"
           /\ faiss_index_file = IndexFileOf(built)
           /\ chunks_file = ChunksFileOf(built)
           /\ built \in PriorBuilds

\* the second request fails, after the first gave its embeddings, over the
\* files of an earlier build
C19_Witness ==
    /\ em.pc = "raised" /\ em.error = "service"
    /\ Len(em.requests) = 2 /\ Len(em.embeddings) = batch_size
    /\ built.valid

\* C20: when validate_config fails, embed_chunks and embed_query both fail
\* with a configuration error before any embedding request is sent, and
\* retrieve_similar_documents returns a single error string
C20_NoRequestWithoutConfig ==
    /\ (em.pc \notin {"none", "main"} /\ ~em.configOk /\ em.chunks # <<>>)
           => em.pc = "raised" /\ em.error = "config" /\ em.requests = <<>>
    /\ (ret.kind # "none" /\ ~ret.configOk)
           => /\ ~ret.requested
              /\ Len(ret.result) = 1
              /\ ret.result[1] \in {ERROR_MSG, NOT_LOADED_MSG}
              /\ ret.embedCalled => ret.kind = "error" /\ ret.result = <<ERROR_MSG>>

\* the script stopped at the missing settings, and a query on a loaded index
\* got the error string for the same reason
C20_Witness ==
    /\ em.pc = "raised" /\ em.error = "config"
    /\ ret.kind = "error" /\ ret.embedCalled /\ ~ret.configOk
    /\ index.loaded

\* C21: whatever an earlier build left, a completed build_index(chunks,
\* embeddings) leaves chunks.jsonl with exactly the lines of chunks, in order,
\* and an index with exactly the rows of embeddings, in order; a second run
\* on the same arguments leaves what the first left
C21_RebuildReplaces ==
    built.valid => /\ faiss_index_file = IndexFileOf(built)
                   /\ chunks_file = ChunksFileOf(built)

\* two chunks and their embeddings built a second time, over the files the
\* first build left
C21_Witness ==
    /\ em.prior.valid /\ lastCall.outcome = "ok" /\ built = em.prior
    /\ Len(built.chunks) > 1

\* the 0-based indexes of the periods of the text inside [start, end)
PeriodsIn(start, end) ==
    { i \in start..(end - 1) : i >= 0 /\ i < Len(ct.text) /\ ct.text[i + 1] = "." }

\* the window end the snap rule asks for
SnapRuleEnd(start) ==
    LET end == start + ct.chunk_size
        periods == PeriodsIn(start, end)
        last == CHOOSE i \in periods : \A j \in periods : j <= i
    IN  IF end < Len(ct.text) /\ periods # {} /\ last > start + (ct.chunk_size \div 2)
        THEN last + 1
        ELSE end

\* C22: the end of each window of chunk_text is the position just after the
\* last period of [start, start + chunk_size) when that window ends before the
\* end of the text and the period lies beyond the midpoint, and is
\* start + chunk_size in every other case
C22_SnapRule ==
    [][ ct.pc = "loop" => ct'.start + ct.overlap = SnapRuleEnd(ct.start) ]_vars

\* the positions of the text the slice text[w.start:w.end] holds
SpanPositions(w) ==
    Clip(w.start, Len(ct.text)) .. (Clip(w.end, Len(ct.text)) - 1)

\* C23: on a text longer than chunk_size any two consecutive untrimmed
\* windows of chunk_text, the last two included, share exactly overlap
\* characters of the text
C23_ConsecutiveWindowsShareOverlap ==
    (ValidOverlap /\ Len(ct.text) > ct.chunk_size)
        => \A k \in 1..(Len(ct.spans) - 1) :
              Cardinality(SpanPositions(ct.spans[k]) \cap SpanPositions(ct.spans[k + 1]))
                  = ct.overlap

\* C29: once a window of chunk_text has reached the end of the text no
\* further chunk is emitted: no returned chunk lies entirely inside the
\* window of the chunk returned just before it
C29_NoChunkInsidePreviousWindow ==
    (ct.pc = "returned" /\ ValidOverlap)
        => \A k \in 1..(Len(ct.windows) - 1) :
              /\ ct.windows[k].end < Len(ct.text)
              /\ ~ /\ ct.windows[k].start <= ct.windows[k + 1].lo
                   /\ ct.windows[k + 1].hi <= ct.windows[k].end

AskedTerms == chat.terms[chat.query]

\* C24: for an uncached query with web search enabled exactly one lookup is
\* called, that of the first matching rule in the order repo rate, news,
\* regulation, generic web search; with web search disabled none is called
\* and the web context is empty
C24_FirstMatchingLookup ==
    chat.generated
        => IF chat.web
           THEN /\ Len(chat.lookups) = 1
                /\ chat.lookups[1] = "get_current_repo_rate" <=> "repo" \in AskedTerms
                /\ chat.lookups[1] = "search_banking_news"
                      <=> ("news" \in AskedTerms /\ "repo" \notin AskedTerms)
                /\ chat.lookups[1] = "search_banking_regulations"
                      <=> ("regulation" \in AskedTerms
                             /\ AskedTerms \cap {"repo", "news"} = {})
                /\ chat.lookups[1] = "live_web_search"
                      <=> AskedTerms \cap {"repo", "news", "regulation"} = {}
           ELSE chat.lookups = <<>> /\ chat.web_context = ""

\* a query holding repo-rate, news and regulation terms, not cached, asked
\* with web search enabled
C24_Witness ==
    /\ chat.generated /\ chat.web
    /\ {"repo", "news", "regulation"} \subseteq AskedTerms

Failures == {LLM_CONFIG_ERROR, LLM_CALL_ERROR}

\* C27: an answer that is a failure message of generate_llm is never stored
\* in the response cache, so a later submission of the same query is
\* generated again and the failure is not replayed
C27_FailureNotCached ==
    /\ \A k \in Keys : cache[k] \notin Failures
    /\ chat.fromCache => chat.answer \notin Failures

Completions == { Completion(mode, web) : mode \in Modes, web \in BOOLEAN }

\* C28: the answer shown for a query submitted with response style m and
\* web-search setting w was generated with style m and setting w
C28_AnswerMatchesSettings ==
    (chat.pc = "idle" /\ chat.answer \in Completions)
        => chat.answer = Completion(chat.mode, chat.web)

\* C30: after every get, set and clear on a Cache with max_size >= 1 the value
\* map and the access-time map have the same key set; a get on an absent key
\* returns None and changes neither map; clear empties both
C30_MapsShareKeys ==
    [][max_size >= 1 =>
         /\ CacheKeys(cache') = TimeKeys(access_times')
         /\ (lastOp'.op = "get" /\ cache[lastOp'.key] = Absent)
               => /\ lastOp'.result = Absent
                  /\ cache' = cache /\ access_times' = access_times
         /\ lastOp'.op = "clear"
               => CacheKeys(cache') = {} /\ access_times' = <<>>]_vars

\* a set on a full cache has evicted another key from both maps
C30_Witness ==
    /\ lastOp.op = "set" /\ lastOp.evicted \in Keys \ {lastOp.key}
    /\ lastOp.evicted \notin CacheKeys(cache) \cup TimeKeys(access_times)
    /\ CacheKeys(cache) = TimeKeys(access_times)
    /\ Cardinality(CacheKeys(cache)) = max_size

(* ------------------------- the scraper's merge ------------------------- *)
ScraperInit ==
    /\ InitStore /\ InitCache(DEFAULT_MAX_SIZE)
    /\ chat = NoChat /\ thr = [t \in Threads |-> Idle] /\ ct = NoChunking
    /\ em = NoScript
    /\ \E file \in {NoCorpus} \cup { Corpus(d) : d \in SeqsUpTo(Docs, 1) } :
          sc = [NoScrape EXCEPT !.file = file]

ScraperNext ==
    \/ \E new_data \in SeqsUpTo(Docs, MaxNewData) :
          Merge(new_data) /\ UNCHANGED notScraper
    \/ \E new_data \in SeqsUpTo(Docs, MaxNewData) :
          MergeFails(new_data) /\ UNCHANGED notScraper

ScraperSpec == ScraperInit /\ [][ScraperNext]_vars

Added == SubSeq(sc.file.docs, Len(sc.before) + 1, Len(sc.file.docs))

\* C26: after a successful merge the corpus file holds the existing documents
\* unchanged and in order, followed by the added ones; no added document has
\* the title of an existing document or of another added document; merging
\* the same new_data a second time adds nothing
C26_MergeAvoidsDuplicates ==
    sc.outcome = "merged"
        => /\ sc.file.exists /\ Len(sc.file.docs) >= Len(sc.before)
           /\ SubSeq(sc.file.docs, 1, Len(sc.before)) = sc.before
           /\ \A i \in 1..Len(Added) : Added[i].title \notin TitlesOf(sc.before)
           /\ \A i, j \in 1..Len(Added) : i # j => Added[i].title # Added[j].title
           /\ sc.again => Added = <<>>

(* --------------------- rebuild from the running app -------------------- *)
\* the app is started over the storage an earlier build left; the index is
\* then rebuilt from the app while the process keeps serving queries
RebuildInit ==
    /\ InitCache(DEFAULT_MAX_SIZE) /\ InitSide
    /\ \E b \in { p \in PriorBuilds : Len(p.chunks) <= 1 } : InitStoreAfter(b)

RebuildNext ==
    \/ ModuleLoad /\ UNCHANGED sideVars
    \/ \E c \in SeqsUpTo(ChunkTexts, MaxChunks), e \in SeqsUpTo(Vectors, MaxChunks) :
          RebuildCall(c, e) /\ UNCHANGED sideVars
    \/ BuildWriteIndex /\ UNCHANGED sideVars
    \/ BuildWriteIndexFail /\ UNCHANGED sideVars
    \/ BuildOpenChunks /\ UNCHANGED sideVars
    \/ BuildWriteChunk /\ UNCHANGED sideVars
    \/ BuildFinish /\ UNCHANGED sideVars
    \/ BuildFail /\ UNCHANGED sideVars
    \/ \E qe \in EmbedOutcomes, k \in 0..MaxTopK :
          Retrieve(qe, k) /\ UNCHANGED sideVars

RebuildSpec == RebuildInit /\ [][RebuildNext]_vars

\* C25: once the rebuild started from the running app has reported success,
\* the queries the same process handles are retrieved from the rebuilt index
\* and chunk store, not from the ones loaded when the process started
C25_QueriesUseRebuiltIndex ==
    [][(/\ proc = "running" /\ buildPc = "idle"
        /\ lastCall.outcome = "ok" /\ built.valid
        /\ ret' # ret)
          => LET l == load_index_and_chunks(faiss_index_file, chunks_file)
             IN  l.ok /\ index = l.index /\ chunks = l.chunks]_vars

=============================================================================
